---- MODULE Spec2Model ----
(***************************************************************************)
(* Model of tasks.py: BotStateMachine (a `transitions` Machine with seven  *)
(* states and seven triggers) and RobotSpareBinBot.run(), the try/except   *)
(* pipeline that drives it.  Every library call that can raise is a        *)
(* nondeterministic success/failure; the log file and the calls made are   *)
(* kept as the event sequence of the run in progress.                      *)
(***************************************************************************)
EXTENDS Integers, Sequences, FiniteSets, TLC

\* ---------------------------------------------------------------- bounds
MaxRows == 3        \* longest worksheet read from SalesData.xlsx
MaxRecord == 2      \* distinct rows a worksheet is drawn from

\* ------------------------------------------------------ BotStateMachine
states == {"start", "login", "process_data", "export", "log_out", "error", "completed"}

\* Mutant: the wildcard leaves out the terminal states.
add_transition_no_terminal(trigger, source, dest) ==
    IF source = "*"
    THEN {<<trigger, s, dest>> : s \in states \ {"error", "completed"}}
    ELSE {<<trigger, source, dest>>}

\* Machine.add_transition(trigger, source, dest): the wildcard source "*"
\* is expanded to every state of the machine.
add_transition(trigger, source, dest) ==
    IF source = "*"
    THEN {<<trigger, s, dest>> : s \in states}
    ELSE {<<trigger, source, dest>>}

\* Mutant: a second recover transition out of error is declared.
transitions_two_recover ==
    add_transition("proceed_to_login", "start", "login")
    \cup add_transition("process_sales_data", "login", "process_data")
    \cup add_transition("export_results", "process_data", "export")
    \cup add_transition("proceed_to_log_out", "export", "log_out")
    \cup add_transition("complete_task", "log_out", "completed")
    \cup add_transition("handle_error", "*", "error")
    \cup add_transition("recover", "error", "start")
    \cup add_transition("recover", "error", "login")

\* Mutant: recover is declared with the wildcard source.
transitions_recover_any ==
    add_transition("proceed_to_login", "start", "login")
    \cup add_transition("process_sales_data", "login", "process_data")
    \cup add_transition("export_results", "process_data", "export")
    \cup add_transition("proceed_to_log_out", "export", "log_out")
    \cup add_transition("complete_task", "log_out", "completed")
    \cup add_transition("handle_error", "*", "error")
    \cup add_transition("recover", "*", "start")

\* Mutant: recover leads to login instead of start.
transitions_recover_login ==
    add_transition("proceed_to_login", "start", "login")
    \cup add_transition("process_sales_data", "login", "process_data")
    \cup add_transition("export_results", "process_data", "export")
    \cup add_transition("proceed_to_log_out", "export", "log_out")
    \cup add_transition("complete_task", "log_out", "completed")
    \cup add_transition("handle_error", "*", "error")
    \cup add_transition("recover", "error", "login")

transitions ==
    add_transition("proceed_to_login", "start", "login")
    \cup add_transition("process_sales_data", "login", "process_data")
    \cup add_transition("export_results", "process_data", "export")
    \cup add_transition("proceed_to_log_out", "export", "log_out")
    \cup add_transition("complete_task", "log_out", "completed")
    \cup add_transition("handle_error", "*", "error")
    \cup add_transition("recover", "error", "start")

triggers == {e[1] : e \in transitions}

\* Mutant: an undeclared trigger is silently ignored, as under
\* ignore_invalid_triggers=True.
trigger_call_ignore_invalid(t, s) ==
    LET dests == {e[3] : e \in {x \in transitions : x[1] = t /\ x[2] = s}}
    IN IF dests = {}
       THEN [raised |-> FALSE, state |-> s]
       ELSE [raised |-> FALSE, state |-> CHOOSE d \in dests : TRUE]

\* Calling the trigger method t on a machine in state s: the transition
\* declared for (t, s) is taken; with none declared, MachineError is raised
\* and the state is left alone (ignore_invalid_triggers is not set).
trigger_call(t, s) ==
    LET dests == {e[3] : e \in {x \in transitions : x[1] = t /\ x[2] = s}}
    IN IF dests = {}
       THEN [raised |-> TRUE, state |-> s]
       ELSE [raised |-> FALSE, state |-> CHOOSE d \in dests : TRUE]

\* ------------------------------------------------------------ worksheet
Records == 1..MaxRecord

Worksheets == UNION {[1..n -> Records] : n \in 0..MaxRows}

\* ---------------------------------------------------------------- state
VARIABLES
    state,      \* BotStateMachine.state, the machine's current state
    pc,         \* position of the bot inside run(); "idle" before any run
    worksheet,  \* the table read from the workbook
    row,        \* index of the next row of the for loop
    trace,      \* events of the run in progress: trigger calls, library calls, log lines
    last        \* the latest trigger call: trigger, source state, outcome

vars == <<state, pc, worksheet, row, trace, last>>

NoCall == [trigger |-> "none", source |-> "start", raised |-> FALSE, dest |-> "start"]

\* One event of the run.  kind "fire": name is the trigger, ok = not raised.
\* kind "call": name is the collaborator action, ok = it returned.
\* kind "log": name is the level.  at is the machine state at that moment.
Event(kind, name, ok, rec, msg) ==
    [kind |-> kind, name |-> name, ok |-> ok, at |-> state, rec |-> rec, msg |-> msg]

logging(level, msg) == Event("log", level, TRUE, 0, msg)

\* Mutant: the Machine is built with initial="login".
Init_initial_login ==
    /\ state = "login"
    /\ pc = "idle"
    /\ worksheet = <<>>
    /\ row = 1
    /\ trace = <<>>
    /\ last = NoCall

Init ==
    /\ state = "start"
    /\ pc = "idle"
    /\ worksheet = <<>>
    /\ row = 1
    /\ trace = <<>>
    /\ last = NoCall

\* Mutant: a rejected trigger call does not stop run().
fire_ignores_rejection(t, here, next) ==
    /\ pc = here
    /\ LET r == trigger_call(t, state)
       IN /\ state' = r.state
          /\ last' = [trigger |-> t, source |-> state, raised |-> r.raised, dest |-> r.state]
          /\ trace' = Append(trace, Event("fire", t, ~r.raised, 0, ""))
          /\ pc' = next
    /\ UNCHANGED <<worksheet, row>>

\* --------------------------------------------------- RobotSpareBinBot.run
\* A trigger call made by run() at position here.  MachineError is an
\* Exception, so a rejected call lands in run()'s except block.
fire(t, here, next) ==
    /\ pc = here
    /\ LET r == trigger_call(t, state)
       IN /\ state' = r.state
          /\ last' = [trigger |-> t, source |-> state, raised |-> r.raised, dest |-> r.state]
          /\ trace' = Append(trace, Event("fire", t, ~r.raised, 0, ""))
          /\ pc' = IF r.raised THEN "except" ELSE next
    /\ UNCHANGED <<worksheet, row>>

\* Mutant: the method logs the failure but does not re-raise it.
method_swallows(name, here, next, okmsg, errmsg) ==
    /\ pc = here
    /\ \E ok \in BOOLEAN :
        /\ trace' = trace \o <<Event("call", name, ok, 0, ""),
                               IF ok THEN logging("info", okmsg) ELSE logging("error", errmsg)>>
        /\ pc' = next
    /\ UNCHANGED <<state, worksheet, row, last>>

\* A bot method whose body is try: <library calls>; logging.info(okmsg)
\* except Exception: logging.error(errmsg); raise
method(name, here, next, okmsg, errmsg) ==
    /\ pc = here
    /\ \E ok \in BOOLEAN :
        /\ trace' = trace \o <<Event("call", name, ok, 0, ""),
                               IF ok THEN logging("info", okmsg) ELSE logging("error", errmsg)>>
        /\ pc' = IF ok THEN next ELSE "except"
    /\ UNCHANGED <<state, worksheet, row, last>>

run ==
    /\ pc \in {"idle", "returned"}
    /\ pc' = "proceed_to_login"
    /\ trace' = <<logging("info", "Starting the bot...")>>
    /\ worksheet' = <<>>
    /\ row' = 1
    /\ UNCHANGED <<state, last>>

proceed_to_login == fire("proceed_to_login", "proceed_to_login", "open_the_intranet_website")

open_the_intranet_website ==
    method("open_the_intranet_website", "open_the_intranet_website", "log_in",
           "Navigated to intranet website.", "Error opening the website")

\* Mutant: run() goes from log_in straight to download_excel_file, without
\* the process_sales_data trigger.
log_in_no_trigger ==
    method("log_in", "log_in", "download_excel_file",
           "Logged in successfully.", "Login failed")

\* Mutant: a failed login is logged and run() carries on.
log_in_swallows ==
    method_swallows("log_in", "log_in", "process_sales_data",
                    "Logged in successfully.", "Login failed")

log_in ==
    method("log_in", "log_in", "process_sales_data",
           "Logged in successfully.", "Login failed")

process_sales_data == fire("process_sales_data", "process_sales_data", "download_excel_file")

\* Mutant: a failed download is logged and run() carries on.
download_excel_file_swallows ==
    method_swallows("download_excel_file", "download_excel_file", "open_workbook",
                    "Excel file downloaded successfully.", "Failed to download Excel file")

download_excel_file ==
    method("download_excel_file", "download_excel_file", "open_workbook",
           "Excel file downloaded successfully.", "Failed to download Excel file")

\* Mutant: a workbook that cannot be opened is passed over in silence.
open_workbook_silent ==
    /\ pc = "open_workbook"
    /\ \E ok \in BOOLEAN :
        /\ trace' = Append(trace, Event("call", "open_workbook", ok, 0, ""))
        /\ pc' = "read_worksheet_as_table"
    /\ UNCHANGED <<state, worksheet, row, last>>

\* fill_form_with_excel_data, first part: Files() and excel.open_workbook.
open_workbook ==
    /\ pc = "open_workbook"
    /\ \E ok \in BOOLEAN :
        /\ trace' = trace \o <<Event("call", "open_workbook", ok, 0, "")>>
                          \o (IF ok THEN <<>> ELSE <<logging("error", "Error processing Excel file")>>)
        /\ pc' = IF ok THEN "read_worksheet_as_table" ELSE "except"
    /\ UNCHANGED <<state, worksheet, row, last>>

\* excel.read_worksheet_as_table("data", header=True): the table it returns
\* is any worksheet of the bounded size.
read_worksheet_as_table ==
    /\ pc = "read_worksheet_as_table"
    /\ \/ \E ws \in Worksheets :
            /\ worksheet' = ws
            /\ row' = 1
            /\ trace' = Append(trace, Event("call", "read_worksheet_as_table", TRUE, 0, ""))
            /\ pc' = "for_row"
       \/ /\ trace' = trace \o <<Event("call", "read_worksheet_as_table", FALSE, 0, ""),
                                 logging("error", "Error processing Excel file")>>
          /\ pc' = "except"
          /\ UNCHANGED <<worksheet, row>>
    /\ UNCHANGED <<state, last>>

\* Mutant: a failed submission is attempted again on the same row.
fill_and_submit_sales_form_retries ==
    /\ pc = "for_row"
    /\ row <= Len(worksheet)
    /\ \E ok \in BOOLEAN :
        /\ trace' = trace \o <<Event("call", "fill_and_submit_sales_form", ok, worksheet[row], ""),
                               IF ok
                               THEN Event("log", "info", TRUE, worksheet[row], "Sales data submitted for")
                               ELSE Event("log", "warning", TRUE, worksheet[row], "Error submitting sales form")>>
        /\ row' = IF ok THEN row + 1 ELSE row
    /\ UNCHANGED <<state, pc, worksheet, last>>

\* Mutant: a failed submission is logged and re-raised like the failures
\* of the other methods.
fill_and_submit_sales_form_reraises ==
    /\ pc = "for_row"
    /\ row <= Len(worksheet)
    /\ \E ok \in BOOLEAN :
        /\ trace' = trace \o <<Event("call", "fill_and_submit_sales_form", ok, worksheet[row], ""),
                               IF ok
                               THEN Event("log", "info", TRUE, worksheet[row], "Sales data submitted for")
                               ELSE Event("log", "warning", TRUE, worksheet[row], "Error submitting sales form")>>
        /\ pc' = IF ok THEN "for_row" ELSE "except"
    /\ row' = row + 1
    /\ UNCHANGED <<state, worksheet, last>>

\* Mutant: a failed submission calls handle_error before the loop goes on.
fill_and_submit_sales_form_handles_error ==
    /\ pc = "for_row"
    /\ row <= Len(worksheet)
    /\ \E ok \in BOOLEAN :
        /\ trace' = trace \o <<Event("call", "fill_and_submit_sales_form", ok, worksheet[row], ""),
                               IF ok
                               THEN Event("log", "info", TRUE, worksheet[row], "Sales data submitted for")
                               ELSE Event("log", "warning", TRUE, worksheet[row], "Error submitting sales form")>>
        /\ state' = IF ok THEN state ELSE trigger_call("handle_error", state).state
    /\ row' = row + 1
    /\ UNCHANGED <<pc, worksheet, last>>

\* One iteration of `for row in worksheet`: fill_and_submit_sales_form(row)
\* logs info when the form went through and a warning when anything raised;
\* it never re-raises.
fill_and_submit_sales_form ==
    /\ pc = "for_row"
    /\ row <= Len(worksheet)
    /\ \E ok \in BOOLEAN :
        trace' = trace \o <<Event("call", "fill_and_submit_sales_form", ok, worksheet[row], ""),
                            IF ok
                            THEN Event("log", "info", TRUE, worksheet[row], "Sales data submitted for")
                            ELSE Event("log", "warning", TRUE, worksheet[row], "Error submitting sales form")>>
    /\ row' = row + 1
    /\ UNCHANGED <<state, pc, worksheet, last>>

\* The loop is exhausted: excel.close_workbook(), which may raise into the
\* method's own except block.
close_workbook ==
    /\ pc = "for_row"
    /\ row > Len(worksheet)
    /\ \E ok \in BOOLEAN :
        /\ trace' = trace \o <<Event("call", "close_workbook", ok, 0, "")>>
                          \o (IF ok THEN <<>> ELSE <<logging("error", "Error processing Excel file")>>)
        /\ pc' = IF ok THEN "export_results" ELSE "except"
    /\ UNCHANGED <<state, worksheet, row, last>>

export_results == fire("export_results", "export_results", "collect_results")

collect_results ==
    method("collect_results", "collect_results", "export_as_pdf",
           "Screenshot captured.", "Error taking screenshot")

\* Mutant: run() goes from export_as_pdf straight to log_out, without the
\* proceed_to_log_out trigger.
export_as_pdf_no_trigger ==
    method("export_as_pdf", "export_as_pdf", "log_out",
           "Sales results exported to PDF.", "Error exporting PDF")

export_as_pdf ==
    method("export_as_pdf", "export_as_pdf", "proceed_to_log_out",
           "Sales results exported to PDF.", "Error exporting PDF")

proceed_to_log_out == fire("proceed_to_log_out", "proceed_to_log_out", "log_out")

\* Mutant: a failed sign-out is logged and run() carries on.
log_out_swallows ==
    method_swallows("log_out", "log_out", "complete_task",
                    "Logged out successfully.", "Error during log out")

log_out ==
    method("log_out", "log_out", "complete_task",
           "Logged out successfully.", "Error during log out")

\* self.state_machine.complete_task() and, when it went through, the final
\* logging.info; run() then returns.
complete_task ==
    /\ pc = "complete_task"
    /\ LET r == trigger_call("complete_task", state)
       IN /\ state' = r.state
          /\ last' = [trigger |-> "complete_task", source |-> state,
                      raised |-> r.raised, dest |-> r.state]
          /\ trace' = Append(trace, Event("fire", "complete_task", ~r.raised, 0, ""))
                        \o (IF r.raised THEN <<>>
                            ELSE <<[logging("info", "Bot completed successfully.")
                                        EXCEPT !.at = r.state]>>)
          /\ pc' = IF r.raised THEN "except" ELSE "returned"
    /\ UNCHANGED <<worksheet, row>>

\* Mutant: the except block calls recover right after handle_error.
handle_error_then_recover ==
    /\ pc = "except"
    /\ LET r == trigger_call("handle_error", state)
           q == trigger_call("recover", r.state)
       IN /\ state' = q.state
          /\ last' = [trigger |-> "recover", source |-> r.state,
                      raised |-> q.raised, dest |-> q.state]
          /\ trace' = trace \o <<logging("error", "Unexpected error occurred"),
                                 Event("fire", "handle_error", ~r.raised, 0, ""),
                                 [Event("fire", "recover", ~q.raised, 0, "") EXCEPT !.at = r.state]>>
          /\ pc' = "returned"
    /\ UNCHANGED <<worksheet, row>>

\* Mutant: the except block only logs.
handle_error_log_only ==
    /\ pc = "except"
    /\ trace' = Append(trace, logging("error", "Unexpected error occurred"))
    /\ pc' = "returned"
    /\ UNCHANGED <<state, worksheet, row, last>>

\* except Exception as e: logging.error(...); self.state_machine.handle_error()
handle_error ==
    /\ pc = "except"
    /\ LET r == trigger_call("handle_error", state)
       IN /\ state' = r.state
          /\ last' = [trigger |-> "handle_error", source |-> state,
                      raised |-> r.raised, dest |-> r.state]
          /\ trace' = trace \o <<logging("error", "Unexpected error occurred"),
                                 Event("fire", "handle_error", ~r.raised, 0, "")>>
          /\ pc' = "returned"
    /\ UNCHANGED <<worksheet, row>>

\* ------------------------------------------------------------ the client
\* Outside run() the machine is an ordinary attribute of the bot
\* (bot.state_machine): its owner may call any trigger method on it.
client_trigger ==
    /\ pc \in {"idle", "returned"}
    /\ \E t \in triggers :
        LET r == trigger_call(t, state)
        IN /\ state' = r.state
           /\ last' = [trigger |-> t, source |-> state, raised |-> r.raised, dest |-> r.state]
    /\ pc' = "idle"
    /\ trace' = <<>>
    /\ UNCHANGED <<worksheet, row>>

Next ==
    \/ run
    \/ proceed_to_login
    \/ open_the_intranet_website
    \/ log_in
    \/ process_sales_data
    \/ download_excel_file
    \/ open_workbook
    \/ read_worksheet_as_table
    \/ fill_and_submit_sales_form
    \/ close_workbook
    \/ export_results
    \/ collect_results
    \/ export_as_pdf
    \/ proceed_to_log_out
    \/ log_out
    \/ complete_task
    \/ handle_error
    \/ client_trigger

Spec == Init /\ [][Next]_vars

\* The steps run() takes once it has been invoked.  run() is sequential
\* and synchronous: as long as every library call returns or raises, the
\* step it is at is eventually taken.
RunStep ==
    \/ proceed_to_login
    \/ open_the_intranet_website
    \/ log_in
    \/ process_sales_data
    \/ download_excel_file
    \/ open_workbook
    \/ read_worksheet_as_table
    \/ fill_and_submit_sales_form
    \/ close_workbook
    \/ export_results
    \/ collect_results
    \/ export_as_pdf
    \/ proceed_to_log_out
    \/ log_out
    \/ complete_task
    \/ handle_error

FairSpec == Init /\ [][Next]_vars /\ WF_vars(RunStep)

\* ------------------------------------------------- reading the run's events
Indices == 1..Len(trace)

IsCall(e) == e.kind = "call"
IsFire(e) == e.kind = "fire"
IsLog(e) == e.kind = "log"
IsSubmit(e) == e.kind = "call" /\ e.name = "fill_and_submit_sales_form"

\* The field f of the events of the run that satisfy Test, in order.
Project(Test(_), f) ==
    LET sel == SelectSeq(trace, Test)
    IN [i \in 1..Len(sel) |-> sel[i][f]]

Returned == pc = "returned"
StartedIn(s) == Len(trace) >= 1 /\ trace[1].at = s

\* Every call of a bot method other than the per-row submission raises on
\* failure: these are the fatal actions.
FatalActions ==
    {"open_the_intranet_website", "log_in", "download_excel_file",
     "open_workbook", "read_worksheet_as_table", "close_workbook",
     "collect_results", "export_as_pdf", "log_out"}

FatalFailure(e) == e.kind = "call" /\ e.name \in FatalActions /\ ~e.ok
Rejected(e) == e.kind = "fire" /\ ~e.ok
Called(name) == \E i \in Indices : trace[i].kind = "call" /\ trace[i].name = name
Failed(name) == \E i \in Indices : trace[i].kind = "call" /\ trace[i].name = name /\ ~trace[i].ok
Attempted(t) == \E i \in Indices : trace[i].kind = "fire" /\ trace[i].name = t

TypeOK ==
    /\ state \in states
    /\ worksheet \in Worksheets
    /\ row \in 1..(MaxRows + 1)
    /\ last.trigger \in triggers \cup {"none"}

\* ------------------------------------------------------------------ claims

\* C1: a run that starts in state start and in which every collaborator
\* action succeeds ends in completed, and the trigger calls of the run are
\* exactly proceed_to_login, process_sales_data, export_results,
\* proceed_to_log_out, complete_task, in that order, each once and each
\* accepted; handle_error and recover are not among them.
C1_HappyPath ==
    (/\ Returned
     /\ StartedIn("start")
     /\ \A i \in Indices : IsCall(trace[i]) => trace[i].ok)
    => /\ state = "completed"
       /\ Project(IsFire, "name") =
            <<"proceed_to_login", "process_sales_data", "export_results",
              "proceed_to_log_out", "complete_task">>
       /\ \A i \in Indices : IsFire(trace[i]) => trace[i].ok

C1_Witness ==
    /\ Returned
    /\ StartedIn("start")
    /\ \A i \in Indices : IsCall(trace[i]) => trace[i].ok
    /\ Len(worksheet) >= 2
    /\ Called("log_out")

\* C2: whenever run() has returned, whatever succeeded or failed and
\* whatever the worksheet held, the machine is in completed or in error.
C2_TerminalOnReturn ==
    Returned => state \in {"completed", "error"}

C2_Witness ==
    /\ Returned
    /\ state = "error"
    /\ Failed("fill_and_submit_sales_form")
    /\ Failed("export_as_pdf")

\* C3: for a run started in start, the run ends in completed exactly when
\* no fatal action failed and in error otherwise, and the states the run
\* has passed through never include both completed and error.
Visited == {trace[i].at : i \in Indices} \cup {state}

C3_ExactlyOneTerminal ==
    StartedIn("start") =>
        /\ ~({"completed", "error"} \subseteq Visited)
        /\ Returned =>
            /\ state = "completed" <=> ~\E i \in Indices : FatalFailure(trace[i])
            /\ state = "error" <=> \E i \in Indices : FatalFailure(trace[i])

C3_Witness ==
    /\ Returned
    /\ StartedIn("start")
    /\ state = "error"
    /\ Failed("log_out")
\* The transition table as the documentation declares it, rows with a
\* named source only.
DeclaredRows ==
    {<<"proceed_to_login", "start", "login">>,
     <<"process_sales_data", "login", "process_data">>,
     <<"export_results", "process_data", "export">>,
     <<"proceed_to_log_out", "export", "log_out">>,
     <<"complete_task", "log_out", "completed">>,
     <<"recover", "error", "start">>}

DeclaredTriggers ==
    {"proceed_to_login", "process_sales_data", "export_results",
     "proceed_to_log_out", "complete_task", "handle_error", "recover"}

DeclaredStates ==
    {"start", "login", "process_data", "export", "log_out", "error", "completed"}

\* C4: for every row of the declared table with a named source, a call of
\* the trigger made while the machine was in that source is accepted and
\* leaves the machine in exactly the declared destination.
C4_DeclaredDestination ==
    \A r \in DeclaredRows :
        (last.trigger = r[1] /\ last.source = r[2])
        => (~last.raised /\ state = r[3])

C4_Witness ==
    /\ last.trigger = "recover"
    /\ last.source = "error"
    /\ state = "start"

\* C5: for every (trigger, state) pair over the 7 triggers and 7 states
\* that is not a row of the table and whose trigger is not handle_error, a
\* call of the trigger in that state raises and the state after the call is
\* the state before it.
C5_IllegalRejected ==
    \A t \in DeclaredTriggers \ {"handle_error"} : \A s \in DeclaredStates :
        (/\ \A r \in DeclaredRows : ~(r[1] = t /\ r[2] = s)
         /\ last.trigger = t
         /\ last.source = s)
        => (last.raised /\ state = s)

C5_Witness ==
    /\ last.trigger = "complete_task"
    /\ last.source = "export"
    /\ last.raised
    /\ state = "export"

\* C6: handle_error called in any state, error and completed included, is
\* never rejected and always leaves the machine in error.
C6_HandleErrorAnywhere ==
    last.trigger = "handle_error" => (~last.raised /\ state = "error")

C6_Witness ==
    /\ last.trigger = "handle_error"
    /\ last.source = "completed"
    /\ state = "error"

ForwardTriggers ==
    {"process_sales_data", "export_results", "proceed_to_log_out", "complete_task"}

IsErrorLog(e) == e.kind = "log" /\ e.name = "error"
IsWarning(e) == e.kind = "log" /\ e.name = "warning"
IsFailedSubmit(e) == IsSubmit(e) /\ ~e.ok
IsHandleError(e) == e.kind = "fire" /\ e.name = "handle_error"

\* C7: when a fatal action fails during run(), or a trigger call of run()
\* is rejected, no collaborator action is invoked and no forward trigger
\* is called afterwards, and by the time run() has returned the failure has
\* been logged at error level and handle_error has been called after that.
C7_FailureRoutesToError ==
    \A i \in Indices :
        (FatalFailure(trace[i]) \/ Rejected(trace[i])) =>
            /\ \A j \in Indices : j > i =>
                    /\ ~IsCall(trace[j])
                    /\ ~(IsFire(trace[j]) /\ trace[j].name \in ForwardTriggers)
            /\ Returned =>
                    \E j, k \in Indices :
                        /\ i < j /\ j < k
                        /\ IsErrorLog(trace[j])
                        /\ IsHandleError(trace[k]) /\ trace[k].ok

C7_Witness ==
    /\ Returned
    /\ Failed("export_as_pdf")
    /\ trace[Len(trace)].name = "handle_error"
    /\ trace[Len(trace)].at = "export"

\* C8: a run in which the download, the opening of the workbook or the
\* reading of the worksheet fails never calls export_results, never invokes
\* the screenshot, PDF or sign-out actions, and has the machine in error
\* when it returns.
AcquisitionFailed ==
    \/ Failed("download_excel_file")
    \/ Failed("open_workbook")
    \/ Failed("read_worksheet_as_table")

C8_AcquisitionFailure ==
    AcquisitionFailed =>
        /\ ~Attempted("export_results")
        /\ ~Called("collect_results")
        /\ ~Called("export_as_pdf")
        /\ ~Called("log_out")
        /\ Returned => state = "error"

C8_Witness ==
    /\ Returned
    /\ Failed("download_excel_file")
    /\ state = "error"

\* C9: the submissions of a run are attempted in worksheet order, one per
\* row, and once the worksheet has been read and the run has gone past the
\* loop they are exactly the n rows; one warning is logged per failed
\* submission and for that row; and a run begun in start in which nothing
\* but submissions failed still has export_results accepted and ends in
\* completed.
SubmitRecs == Project(IsSubmit, "rec")
WarningRecs == Project(IsWarning, "rec")
FailedRecs == Project(IsFailedSubmit, "rec")
WorksheetRead == Called("read_worksheet_as_table") /\ ~Failed("read_worksheet_as_table")

C9_EveryRecordAttempted ==
    /\ Len(SubmitRecs) <= Len(worksheet)
    /\ SubmitRecs = SubSeq(worksheet, 1, Len(SubmitRecs))
    /\ WarningRecs = FailedRecs
    /\ (WorksheetRead /\ (Returned \/ Called("close_workbook"))) => SubmitRecs = worksheet
    /\ (/\ Returned
        /\ StartedIn("start")
        /\ ~\E i \in Indices : FatalFailure(trace[i]))
       => /\ \E i \in Indices :
                IsFire(trace[i]) /\ trace[i].name = "export_results" /\ trace[i].ok
          /\ state = "completed"

C9_Witness ==
    /\ Returned
    /\ Len(worksheet) = 3
    /\ Project(IsSubmit, "ok") = <<TRUE, FALSE, TRUE>>
    /\ Len(WarningRecs) = 1
    /\ Attempted("export_results")
    /\ state = "completed"

\* C10: a submission attempt, failed or not, leaves the workflow state
\* alone: the machine is in process_data whenever the bot is at the loop
\* (before the first row, between rows, after the last), a submission step
\* changes neither the state nor the position of run(), and every
\* handle_error of a run comes after a fatal failure or a rejected trigger.
C10_SubmissionKeepsState ==
    /\ [](pc = "for_row" => state = "process_data")
    /\ [](\A i \in Indices : IsSubmit(trace[i]) => trace[i].at = "process_data")
    /\ [](\A k \in Indices : IsHandleError(trace[k]) =>
            \E i \in 1..(k - 1) : FatalFailure(trace[i]) \/ Rejected(trace[i]))
    /\ [][(pc = "for_row" /\ row <= Len(worksheet))
            => (state' = state /\ pc' = "for_row" /\ last' = last)]_vars

C10_Witness ==
    /\ pc = "for_row"
    /\ row > Len(worksheet)
    /\ Len(FailedRecs) >= 2
    /\ state = "process_data"

Succeeded(name) == \E i \in Indices : trace[i].kind = "call" /\ trace[i].name = name /\ trace[i].ok
Accepted(t) == \E i \in Indices : trace[i].kind = "fire" /\ trace[i].name = t /\ trace[i].ok

\* C11 as stated: in every run whose final state is error, neither
\* collect_results nor export_as_pdf has completed successfully.
C11_NoArtifactsOnError ==
    (Returned /\ state = "error") =>
        (~Succeeded("collect_results") /\ ~Succeeded("export_as_pdf"))

\* C11 amended: a run that ends in error after a failure before the export
\* state (a fatal action failing in login or process_data, or a rejected
\* trigger) has invoked neither collect_results nor export_as_pdf; a run
\* that ends in error with the screenshot taken failed in export_as_pdf or
\* in log_out, and one that ends in error with the PDF written failed in
\* log_out.
FailedBeforeExport ==
    \E i \in Indices :
        \/ FatalFailure(trace[i]) /\ trace[i].at \in {"login", "process_data"}
        \/ Rejected(trace[i])

C11_ArtifactsOnlyFromExportOn ==
    (Returned /\ state = "error") =>
        /\ FailedBeforeExport => (~Called("collect_results") /\ ~Called("export_as_pdf"))
        /\ Succeeded("collect_results") => (Failed("export_as_pdf") \/ Failed("log_out"))
        /\ Succeeded("export_as_pdf") => (Succeeded("collect_results") /\ Failed("log_out"))

C11_Witness ==
    /\ Returned
    /\ state = "error"
    /\ Succeeded("collect_results")
    /\ Succeeded("export_as_pdf")
    /\ Failed("log_out")

C13_RecoverOnlyFromError ==
    last.trigger = "recover" =>
        /\ last.source = "error" => (~last.raised /\ state = "start")
        /\ last.source \in {"start", "login", "process_data", "export", "log_out", "completed"}
             => (last.raised /\ state = last.source)

C13_Witness ==
    /\ last.trigger = "recover"
    /\ last.source = "completed"
    /\ last.raised
    /\ state = "completed"

\* C14: run() never calls recover; once handle_error has been called the
\* machine is in error and stays there for the rest of the run, nothing is
\* called after it, and no collaborator action other than the per-row
\* submission is invoked twice in a run.
C14_NoRecoverNoRetry ==
    /\ ~Attempted("recover")
    /\ \A k \in Indices : IsHandleError(trace[k]) =>
            /\ state = "error"
            /\ \A j \in Indices : j > k => (trace[j].kind = "log" /\ trace[j].at = "error")
    /\ \A i, j \in Indices :
            (/\ i < j
             /\ IsCall(trace[i]) /\ IsCall(trace[j])
             /\ trace[i].name = trace[j].name)
            => IsSubmit(trace[i])

C14_Witness ==
    /\ Returned
    /\ state = "error"
    /\ Failed("log_in")
    /\ IsHandleError(trace[Len(trace)])

\* C15: a forward trigger is called only after the actions of the state it
\* leaves have all succeeded: process_sales_data after open-site and
\* authenticate, export_results after the download, the reading of the
\* worksheet, a submission attempt for every row and the closing of the
\* workbook, proceed_to_log_out after screenshot and PDF, complete_task
\* after sign-out.
SucceededBefore(name, k) ==
    \E i \in 1..(k - 1) : trace[i].kind = "call" /\ trace[i].name = name /\ trace[i].ok

SubmitsBefore(k) ==
    LET sel == SelectSeq(SubSeq(trace, 1, k - 1), IsSubmit)
    IN [i \in 1..Len(sel) |-> sel[i].rec]

C15_TriggerAfterActions ==
    \A k \in Indices : IsFire(trace[k]) =>
        /\ trace[k].name = "process_sales_data" =>
                /\ SucceededBefore("open_the_intranet_website", k)
                /\ SucceededBefore("log_in", k)
        /\ trace[k].name = "export_results" =>
                /\ SucceededBefore("download_excel_file", k)
                /\ SucceededBefore("read_worksheet_as_table", k)
                /\ SubmitsBefore(k) = worksheet
                /\ SucceededBefore("close_workbook", k)
        /\ trace[k].name = "proceed_to_log_out" =>
                /\ SucceededBefore("collect_results", k)
                /\ SucceededBefore("export_as_pdf", k)
        /\ trace[k].name = "complete_task" =>
                SucceededBefore("log_out", k)

C15_Witness ==
    /\ Returned
    /\ Accepted("complete_task")
    /\ Len(worksheet) >= 2
    /\ Failed("fill_and_submit_sales_form")

\* C16: the transition table is deterministic: for every state and every
\* trigger, with the wildcard handle_error edge expanded over all seven
\* states, at most one declared transition applies, and an accepted trigger
\* call has taken the one transition declared for its trigger and source.
DeclaredFor(t, s) == {e \in transitions : e[1] = t /\ e[2] = s}

C16_Deterministic ==
    /\ \A t \in DeclaredTriggers : \A s \in DeclaredStates :
            Cardinality(DeclaredFor(t, s)) <= 1
    /\ (last.trigger # "none" /\ ~last.raised) =>
            DeclaredFor(last.trigger, last.source) = {<<last.trigger, last.source, state>>}

C16_Witness ==
    /\ last.trigger = "handle_error"
    /\ last.source = "error"
    /\ ~last.raised
    /\ state = "error"

\* C17: every collaborator action is invoked only while the machine is in
\* its own state: open-site and authenticate in login; download, workbook
\* open/read/close and the submissions in process_data; screenshot and PDF
\* in export; sign-out in log_out; none in start, completed or error.
OwnState(name) ==
    CASE name \in {"open_the_intranet_website", "log_in"} -> "login"
      [] name \in {"download_excel_file", "open_workbook", "read_worksheet_as_table",
                   "fill_and_submit_sales_form", "close_workbook"} -> "process_data"
      [] name \in {"collect_results", "export_as_pdf"} -> "export"
      [] name = "log_out" -> "log_out"
      [] OTHER -> "none"

C17_ActionsInOwnState ==
    \A i \in Indices : IsCall(trace[i]) =>
        /\ trace[i].at = OwnState(trace[i].name)
        /\ trace[i].at \notin {"start", "completed", "error"}

C17_Witness ==
    /\ Returned
    /\ Called("log_out")
    /\ Called("fill_and_submit_sales_form")
    /\ \E i \in Indices : IsCall(trace[i]) /\ trace[i].name = "log_out" /\ trace[i].at = "log_out"

\* C18: a run() invoked while the machine is already in completed or in
\* error has proceed_to_login rejected as its first trigger call, invokes
\* no collaborator action, calls handle_error and returns with the machine
\* in error.
C18_SecondRunRejected ==
    (StartedIn("completed") \/ StartedIn("error")) =>
        /\ \A i \in Indices : ~IsCall(trace[i])
        /\ Len(trace) >= 2 =>
                (Rejected(trace[2]) /\ trace[2].name = "proceed_to_login")
        /\ pc \in {"proceed_to_login", "except", "returned"}
        /\ Returned =>
                /\ state = "error"
                /\ Accepted("handle_error")
                /\ Project(IsFire, "name") = <<"proceed_to_login", "handle_error">>

C18_Witness ==
    /\ Returned
    /\ StartedIn("completed")
    /\ state = "error"
    /\ Accepted("handle_error")

\* C19: when every library call returns or raises and the worksheet is
\* finite, every run() that has been invoked eventually returns; the loop
\* makes at most one submission attempt per row, moving on by exactly one
\* row with each attempt and never going back.
Running == pc \notin {"idle", "returned"}

C19_RunTerminates ==
    /\ Running ~> Returned
    /\ [](Returned => state \in {"completed", "error"})
    /\ [](Len(SubmitRecs) <= Len(worksheet))
    /\ [](pc = "for_row" => Len(SubmitRecs) = row - 1)
    /\ [][(pc = "for_row" /\ pc' = "for_row") => row' \in {row, row + 1}]_vars

C19_Witness ==
    /\ Returned
    /\ Len(worksheet) = MaxRows
    /\ Len(SubmitRecs) = MaxRows
    /\ Len(FailedRecs) >= 1
====
